---- MODULE Spec2Model ----
(***************************************************************************)
(* Universal POS Pro (src/code.py): the checkout / inventory core.         *)
(*                                                                         *)
(* The application is a Streamlit script.  Every browser session runs the  *)
(* script in its own thread; a button press reruns the script from the     *)
(* top, the screen function re-reads the tables it needs, and the branch   *)
(* of the pressed button executes.  Every DB helper opens its own SQLite   *)
(* connection and commits on its own, so one helper call is one atomic     *)
(* step and the steps of different sessions interleave between calls.      *)
(*                                                                         *)
(* Money is held in millionths of a currency unit (Scale), which makes the *)
(* percent computations of pos_screen exact for whole-number percentages;  *)
(* the binary floating point error of the Python floats is not modelled.   *)
(* Customer names are taken to be distinct, so that the name chosen in the *)
(* POS select box identifies one customer row.                             *)
(***************************************************************************)
EXTENDS Integers, Sequences, FiniteSets, TLC

VARIABLES
    config_table,       \* table config: a function from the ids to the data
    products,           \* table products: a function from the ids to the rows
    customers,          \* table customers, likewise
    transactions,       \* table transactions, likewise
    transaction_items,  \* table transaction_items, in AUTOINCREMENT order
    clock,              \* datetime.now().timestamp()
    cart,               \* st.session_state.cart of every session
    edit_customer,      \* st.session_state.edit_customer of every session
    edit_product,       \* st.session_state.edit_product of every session
    screen,             \* st.session_state.screen of every session
    setup_step,         \* st.session_state.setup_step of every session
    pc,                 \* where the session's running script stands
    run,                \* the locals of the session's running pos_screen
    error,              \* what ended the session's last Complete or form Save
    stock0              \* the inventory every product started with

vars == <<config_table, products, customers, transactions, transaction_items,
          clock, cart, edit_customer, edit_product, screen, setup_step, pc, run,
          error, stock0>>

----------------------------------------------------------------------------
(* Bounds of the model: the largest initial stock, the largest quantity of *)
(* a cart line, the last clock reading, the most orders of a customer      *)

MaxStock == 2
MaxQty == 3
MaxClock == 1
MaxOrders == 2

Sessions == {"s1", "s2"}
ProductIds == {"A", "B"}
CustomerIds == {"c1"}

\* money is counted in millionths of a currency unit
Scale == 1000 * 1000
PriceOf(p) == IF p = "A" THEN 10 * Scale ELSE 5 * (Scale \div 2)
DiscountPcts == {10}
Tips == {0}


\* the inputs of the pricing specification: the tax rates of the templates
\* and of a shop without tax, the "Discount (%)" and the "Tip" inputs
TaxRates == {0, 8, 10}
PricingPcts == {0, 5, 10}
PricingTips == {0, Scale}

\* the "Loyalty Points per $1" of the settings
LoyaltyRates == {1, 2}

\* the prices the product form is saved with
EditPrices == {10 * Scale, 12 * Scale}

\* the names and the prices of the product form: the empty name, and the
\* price 0 the validation of the form looks for
FormNames == {"", "Tea"}
FormPrices == {0} \cup EditPrices

\* st.error("Name and valid price required")
ValidationError == "Name and valid price required"

Guest == "Guest"
None == "None"

----------------------------------------------------------------------------
(* Pure helpers *)

RECURSIVE SumSeq(_)
SumSeq(s) == IF s = <<>> THEN 0 ELSE Head(s) + SumSeq(Tail(s))

\* a cart_map that never finds the product
CartIndex_not_found(c, p) == 0

\* cart_map = {item['id']: item for item in cart}: the index of the line of p,
\* 0 when p has no line
CartIndex(c, p) ==
    IF \E i \in 1..Len(c) : c[i].id = p
    THEN CHOOSE i \in 1..Len(c) :
            c[i].id = p /\ \A j \in (i + 1)..Len(c) : c[j].id # p
    ELSE 0

\* a remove that drops the first line, whichever line was asked for
RemoveAt_first(c, i) == Tail(c)

\* cart.remove(item)
RemoveAt(c, i) == [j \in 1..(Len(c) - 1) |-> IF j < i THEN c[j] ELSE c[j + 1]]

\* loyalty points rounded to the nearest point instead of truncated
calculate_loyalty_points_rounded(total, rate) ==
    (total * rate + Scale \div 2) \div Scale

\* calculate_loyalty_points: int(total * rate)
calculate_loyalty_points(total, rate) == (total * rate) \div Scale

\* a discount that reads the percentage as an amount of money
Discount_flat(subtotal, pct) == pct * Scale

\* the totals pos_screen computes from the cart, the inputs and the config
Subtotal(c) == SumSeq([i \in 1..Len(c) |-> c[i].price * c[i].cartQuantity])
Discount(subtotal, pct) == (subtotal * pct) \div 100
Tax(taxable, rate) == (taxable * rate) \div 100
Total(taxable, tax, tip) == taxable + tax + tip

----------------------------------------------------------------------------
(* The DB helpers: one SQL statement and its commit each *)

\* a save that inserts a row with the next id instead of replacing row 1
ConfigDB_save_new_row(tbl, config_data) ==
    [id \in DOMAIN tbl \cup {Cardinality(DOMAIN tbl) + 1} |->
        IF id \in DOMAIN tbl THEN tbl[id] ELSE config_data]

\* ConfigDB.save: INSERT OR REPLACE INTO config (id, data) VALUES (1, ?)
ConfigDB_save(tbl, config_data) ==
    [id \in DOMAIN tbl \cup {1} |-> IF id = 1 THEN config_data ELSE tbl[id]]

\* ConfigDB.get: SELECT data FROM config WHERE id = 1.  HasConfig is the
\* truth value of the result (None without the row), config the data
HasConfig == 1 \in DOMAIN config_table
config == config_table[1]

\* update_inventory without its WHERE clause: every row is updated
update_inventory_all_rows(tbl, product_id, quantity_change) ==
    [p \in DOMAIN tbl |-> [tbl[p] EXCEPT !.inventory = @ + quantity_change]]

\* an update_inventory that stops at 0
update_inventory_floor(tbl, product_id, quantity_change) ==
    IF product_id \in DOMAIN tbl
    THEN [tbl EXCEPT ![product_id].inventory =
            IF @ + quantity_change < 0 THEN 0 ELSE @ + quantity_change]
    ELSE tbl

\* ProductDB.update_inventory: UPDATE products SET inventory = inventory + ?
\* WHERE id = ?
update_inventory(tbl, product_id, quantity_change) ==
    IF product_id \in DOMAIN tbl
    THEN [tbl EXCEPT ![product_id].inventory = @ + quantity_change]
    ELSE tbl

\* CustomerDB.update_stats
update_stats(tbl, customer_id, total_spent, loyalty_points) ==
    IF customer_id \in DOMAIN tbl
    THEN [tbl EXCEPT ![customer_id] =
            [loyalty_points |-> @.loyalty_points + loyalty_points,
             total_spend |-> @.total_spend + total_spent,
             order_count |-> @.order_count + 1]]
    ELSE tbl

\* CustomerDB.update: UPDATE customers SET ..., loyalty_points = ?,
\* total_spend = ?, order_count = ? WHERE id = ?
CustomerDB_update(tbl, customer_data) ==
    IF customer_data.id \in DOMAIN tbl
    THEN [tbl EXCEPT ![customer_data.id] =
            [loyalty_points |-> customer_data.loyalty_points,
             total_spend |-> customer_data.total_spend,
             order_count |-> customer_data.order_count]]
    ELSE tbl

\* CustomerDB.delete
CustomerDB_delete(tbl, customer_id) ==
    [c \in DOMAIN tbl \ {customer_id} |-> tbl[c]]

\* ProductDB.update: UPDATE products SET name = ?, price = ?, inventory = ?,
\* category = ?, data = ? WHERE id = ?
ProductDB_update(tbl, product_data) ==
    IF product_data.id \in DOMAIN tbl
    THEN [tbl EXCEPT ![product_data.id] =
            [price |-> product_data.price, inventory |-> product_data.inventory]]
    ELSE tbl

\* ProductDB.add: INSERT INTO products (id, name, price, inventory, ...)
ProductDB_add(tbl, product_data) ==
    [p \in DOMAIN tbl \cup {product_data.id} |->
        IF p = product_data.id
        THEN [price |-> product_data.price, inventory |-> product_data.inventory]
        ELSE tbl[p]]

\* ProductDB.delete
ProductDB_delete(tbl, product_id) ==
    [p \in DOMAIN tbl \ {product_id} |-> tbl[p]]

\* TransactionDB.add, the row of table transactions
TransactionRow(t) ==
    [customer_id |-> t.customer_id, subtotal |-> t.subtotal,
     discount |-> t.discount, tax |-> t.tax, tip |-> t.tip, total |-> t.total]

\* line items priced from the catalog instead of from the cart lines
ItemRows_catalog_price(id, items) ==
    [i \in 1..Len(items) |->
        [transaction_id |-> id, product_id |-> items[i].id,
         price |-> IF items[i].id \in DOMAIN products
                   THEN products[items[i].id].price ELSE items[i].price,
         quantity |-> items[i].cartQuantity]]

\* TransactionDB.add, the rows of table transaction_items
ItemRows(id, items) ==
    [i \in 1..Len(items) |->
        [transaction_id |-> id, product_id |-> items[i].id,
         price |-> items[i].price, quantity |-> items[i].cartQuantity]]

----------------------------------------------------------------------------
(* Initial state: a configured shop with a catalog and customers *)

\* STORE_TEMPLATES: the keys and template['taxRate']
BusinessTypes == {"cafe", "retail", "restaurant"}
TemplateTaxRate(key) == IF key = "retail" THEN 10 ELSE 8

\* the config the "Select" button of setup_wizard saves for template `key`
SelectConfig(key) ==
    [businessType |-> key, businessName |-> "",
     enableInventory |-> TRUE, enableCustomers |-> TRUE, enableLoyalty |-> TRUE,
     taxRate |-> TemplateTaxRate(key), loyaltyRate |-> 1]

\* the business names typed into the forms: none, or one
BusinessNames == {"", "Shop"}

\* the config "Complete Setup" saves for the cafe template with a name and
\* the check boxes as drawn
DefaultConfig == [SelectConfig("cafe") EXCEPT !.businessName = "Shop"]

NoEdit == [id |-> None, loyalty_points |-> 0, total_spend |-> 0, order_count |-> 0]

NoEditProduct == [id |-> None, price |-> 0, inventory |-> 0]

IdleRun == [customer_id |-> None, customers |-> <<>>, products |-> <<>>,
            enableInventory |-> FALSE,
            discount_pct |-> 0,
            subtotal |-> 0, discount |-> 0, tax |-> 0, tip |-> 0, total |-> 0,
            loyalty_points |-> 0, i |-> 0]

\* a shop set up with one of the configs `configs`, whose products start with
\* one of the inventories `stocks` and whose customers `custs` have not bought
InitShopWith(configs, stocks, custs) ==
    /\ \E config_data \in configs : config_table = ConfigDB_save(<<>>, config_data)
    /\ \E inv \in stocks :
          /\ products = [p \in ProductIds |->
                           [price |-> PriceOf(p), inventory |-> inv[p]]]
          /\ stock0 = inv
    /\ customers = [c \in custs |->
                      [loyalty_points |-> 0, total_spend |-> 0, order_count |-> 0]]
    /\ transactions = <<>>
    /\ transaction_items = <<>>
    /\ clock = 0
    /\ cart = [s \in Sessions |-> <<>>]
    /\ edit_customer = [s \in Sessions |-> NoEdit]
    /\ edit_product = [s \in Sessions |-> NoEditProduct]
    /\ screen = [s \in Sessions |-> "dashboard"]
    /\ setup_step = [s \in Sessions |-> 1]
    /\ pc = [s \in Sessions |-> "idle"]
    /\ run = [s \in Sessions |-> IdleRun]
    /\ error = [s \in Sessions |-> None]

\* the shop as setup_wizard leaves it
InitShop(stocks, custs) == InitShopWith({DefaultConfig}, stocks, custs)

----------------------------------------------------------------------------
(* pos_screen: the cart buttons.  The handlers touch only the session's    *)
(* cart, so the rerun's read of the tables and the handler are one step.   *)

\* a button press starts a new script run of the session
Press(s) == pc[s] = "idle"

\* disabled=stock <= 0 and config.get('enableInventory')
AddEnabled(p) ==
    /\ p \in DOMAIN products
    /\ ~(products[p].inventory <= 0 /\ config.enableInventory)

NewLine(p) ==
    [id |-> p, price |-> products[p].price,
     inventory |-> products[p].inventory, cartQuantity |-> 1]

\* grid view "Add"
AddGrid(s, p) ==
    /\ Press(s)
    /\ AddEnabled(p)
    /\ LET i == CartIndex(cart[s], p)
           max_stock == IF config.enableInventory
                        THEN products[p].inventory ELSE 999
       IN  IF i # 0
           THEN /\ cart[s][i].cartQuantity < MaxQty
                /\ cart' = IF cart[s][i].cartQuantity < max_stock
                           THEN [cart EXCEPT ![s][i].cartQuantity = @ + 1]
                           ELSE cart
           ELSE cart' = [cart EXCEPT ![s] = Append(@, NewLine(p))]
    /\ UNCHANGED <<config_table, products, customers, transactions,
                   transaction_items, clock, edit_customer, edit_product,
                   screen, setup_step, pc, run, error, stock0>>

\* list view "Add"
AddList(s, p) ==
    /\ Press(s)
    /\ AddEnabled(p)
    /\ LET i == CartIndex(cart[s], p)
       IN  IF i # 0
           THEN /\ cart[s][i].cartQuantity < MaxQty
                /\ cart' = [cart EXCEPT ![s][i].cartQuantity = @ + 1]
           ELSE cart' = [cart EXCEPT ![s] = Append(@, NewLine(p))]
    /\ UNCHANGED <<config_table, products, customers, transactions,
                   transaction_items, clock, edit_customer, edit_product,
                   screen, setup_step, pc, run, error, stock0>>

\* a minus button that leaves the line in the cart when it reaches 0
DecCart_keeps_line(s, i) ==
    /\ Press(s)
    /\ i \in 1..Len(cart[s])
    /\ cart' = [cart EXCEPT ![s][i].cartQuantity = @ - 1]
    /\ UNCHANGED <<config_table, products, customers, transactions,
                   transaction_items, clock, edit_customer, edit_product,
                   screen, setup_step, pc, run, error, stock0>>

\* the cart line's minus button
DecCart(s, i) ==
    /\ Press(s)
    /\ i \in 1..Len(cart[s])
    /\ cart' = IF cart[s][i].cartQuantity - 1 <= 0
               THEN [cart EXCEPT ![s] = RemoveAt(@, i)]
               ELSE [cart EXCEPT ![s][i].cartQuantity = @ - 1]
    /\ UNCHANGED <<config_table, products, customers, transactions,
                   transaction_items, clock, edit_customer, edit_product,
                   screen, setup_step, pc, run, error, stock0>>

\* the cart line's plus button
IncCart(s, i) ==
    /\ Press(s)
    /\ i \in 1..Len(cart[s])
    /\ cart[s][i].cartQuantity < MaxQty
    /\ LET max_qty == IF config.enableInventory
                      THEN cart[s][i].inventory ELSE 999
       IN  cart' = IF cart[s][i].cartQuantity < max_qty
                   THEN [cart EXCEPT ![s][i].cartQuantity = @ + 1]
                   ELSE cart
    /\ UNCHANGED <<config_table, products, customers, transactions,
                   transaction_items, clock, edit_customer, edit_product,
                   screen, setup_step, pc, run, error, stock0>>

\* the cart line's bin button
DelCart(s, i) ==
    /\ Press(s)
    /\ i \in 1..Len(cart[s])
    /\ cart' = [cart EXCEPT ![s] = RemoveAt(@, i)]
    /\ UNCHANGED <<config_table, products, customers, transactions,
                   transaction_items, clock, edit_customer, edit_product,
                   screen, setup_step, pc, run, error, stock0>>

\* "Clear" and "Complete" drawn whatever the cart holds
CartShown_always(s) == TRUE

\* if cart: the lines, the totals, "Clear" and "Complete" are drawn
CartShown(s) == cart[s] # <<>>

\* "Clear"
ClearCart(s) ==
    /\ Press(s)
    /\ CartShown(s)
    /\ cart' = [cart EXCEPT ![s] = <<>>]
    /\ UNCHANGED <<config_table, products, customers, transactions,
                   transaction_items, clock, edit_customer, edit_product,
                   screen, setup_step, pc, run, error, stock0>>

----------------------------------------------------------------------------
(* pos_screen: "Complete".  The run reads config and customers (top of the *)
(* function), then calls CustomerDB.update_stats, TransactionDB.add and    *)
(* ProductDB.update_inventory once per cart line: separate connections and *)
(* commits, with no stock check and no enclosing transaction.              *)

\* a customer_id taken from the select box whatever the config says
CustomerId_ignores_config(selected_customer) ==
    IF selected_customer # Guest THEN selected_customer ELSE None

\* customer_id = None; if config.get('enableCustomers') and
\* selected_customer != 'Guest': customer_id = customer['id']
CustomerId(selected_customer) ==
    IF config.enableCustomers /\ selected_customer # Guest
    THEN selected_customer ELSE None

\* the rerun of the press: the reads and the locals of the handler up to the
\* first write (customer_id, the totals, loyalty_points)
CompleteReadWith(s, selected_customer, discount_pct, tip) ==
    /\ Press(s)
    /\ CartShown(s)
    /\ LET subtotal == Subtotal(cart[s])
           discount == Discount(subtotal, discount_pct)
           taxable == subtotal - discount
           tax == Tax(taxable, config.taxRate)
           total == Total(taxable, tax, tip)
           customer_id == CustomerId(selected_customer)
       IN  /\ customer_id # None => customers[customer_id].order_count < MaxOrders
           /\ run' = [run EXCEPT ![s] =
                 [customer_id |-> customer_id, customers |-> customers,
                  products |-> products,
                  enableInventory |-> config.enableInventory,
                  discount_pct |-> discount_pct,
                  subtotal |-> subtotal, discount |-> discount, tax |-> tax,
                  tip |-> tip, total |-> total,
                  loyalty_points |->
                     IF config.enableLoyalty
                     THEN calculate_loyalty_points(total, config.loyaltyRate)
                     ELSE 0,
                  i |-> 0]]
           /\ pc' = [pc EXCEPT ![s] = IF customer_id # None THEN "stats" ELSE "insert"]
    /\ error' = [error EXCEPT ![s] = None]
    /\ UNCHANGED <<config_table, products, customers, transactions,
                   transaction_items, clock, cart, edit_customer, edit_product,
                   screen, setup_step, stock0>>

\* "Complete" with the customer of the select box ("Guest" when the box is
\* not drawn) and the values of the two number inputs
CompleteRead(s) ==
    \E selected_customer \in {Guest} \cup DOMAIN customers,
       discount_pct \in DiscountPcts, tip \in Tips :
       CompleteReadWith(s, selected_customer, discount_pct, tip)

\* CustomerDB.update_stats(customer_id, total, loyalty_points)
CompleteStats(s) ==
    /\ pc[s] = "stats"
    /\ run[s].customer_id \in DOMAIN customers
          => customers[run[s].customer_id].order_count < MaxOrders
    /\ customers' = update_stats(customers, run[s].customer_id, run[s].total,
                                 run[s].loyalty_points)
    /\ pc' = [pc EXCEPT ![s] = "insert"]
    /\ UNCHANGED <<config_table, products, transactions, transaction_items,
                   clock, cart, edit_customer, edit_product, screen, setup_step,
                   run, error, stock0>>

\* a run that ends with the cart as it was
Finish_keeps_cart(s) ==
    /\ cart' = cart
    /\ pc' = [pc EXCEPT ![s] = "idle"]
    /\ run' = [run EXCEPT ![s] = IdleRun]

\* the end of a successful run: the cart is emptied, the receipt shown
Finish(s) ==
    /\ cart' = [cart EXCEPT ![s] = <<>>]
    /\ pc' = [pc EXCEPT ![s] = "idle"]
    /\ run' = [run EXCEPT ![s] = IdleRun]

\* 'id': str(datetime.now().timestamp())
NewTransactionId == clock

\* an inventory loop that runs whatever the config says
TracksInventory_always(r) == TRUE

\* if config.get('enableInventory'): with the config the run read
TracksInventory(r) == r.enableInventory

\* TransactionDB.add(transaction): the INSERT of a taken id raises
\* sqlite3.IntegrityError, nothing is committed and the run ends there
CompleteInsert(s) ==
    /\ pc[s] = "insert"
    /\ LET id == NewTransactionId
       IN  IF id \in DOMAIN transactions
           THEN /\ error' = [error EXCEPT ![s] = "IntegrityError"]
                /\ pc' = [pc EXCEPT ![s] = "idle"]
                /\ run' = [run EXCEPT ![s] = IdleRun]
                /\ UNCHANGED <<transactions, transaction_items, cart>>
           ELSE /\ transactions' =
                      [t \in DOMAIN transactions \cup {id} |->
                          IF t = id THEN TransactionRow(run[s]) ELSE transactions[t]]
                /\ transaction_items' = transaction_items \o ItemRows(id, cart[s])
                /\ IF TracksInventory(run[s]) /\ cart[s] # <<>>
                   THEN /\ pc' = [pc EXCEPT ![s] = "inventory"]
                        /\ run' = [run EXCEPT ![s].i = 1]
                        /\ cart' = cart
                   ELSE Finish(s)
                /\ error' = error
    /\ UNCHANGED <<config_table, products, customers, clock, edit_customer,
                   edit_product, screen, setup_step, stock0>>

\* a stock update that writes the stock the run read minus the quantity,
\* instead of SET inventory = inventory + ?
CompleteInventory_stale(s) ==
    /\ pc[s] = "inventory"
    /\ LET item == cart[s][run[s].i]
       IN  products' =
              IF item.id \in DOMAIN products /\ item.id \in DOMAIN run[s].products
              THEN [products EXCEPT ![item.id].inventory =
                      run[s].products[item.id].inventory - item.cartQuantity]
              ELSE products
    /\ IF run[s].i = Len(cart[s])
       THEN Finish(s)
       ELSE /\ run' = [run EXCEPT ![s].i = @ + 1]
            /\ UNCHANGED <<cart, pc>>
    /\ UNCHANGED <<config_table, customers, transactions, transaction_items,
                   clock, edit_customer, edit_product, screen, setup_step,
                   error, stock0>>

\* for item in cart: ProductDB.update_inventory(item['id'], -item['cartQuantity'])
CompleteInventory(s) ==
    /\ pc[s] = "inventory"
    /\ LET item == cart[s][run[s].i]
       IN  products' = update_inventory(products, item.id, -item.cartQuantity)
    /\ IF run[s].i = Len(cart[s])
       THEN Finish(s)
       ELSE /\ run' = [run EXCEPT ![s].i = @ + 1]
            /\ UNCHANGED <<cart, pc>>
    /\ UNCHANGED <<config_table, customers, transactions, transaction_items,
                   clock, edit_customer, edit_product, screen, setup_step,
                   error, stock0>>

----------------------------------------------------------------------------
(* customers_screen *)

\* "Edit": st.session_state.edit_customer = customer
EditCustomer(s, c) ==
    /\ Press(s)
    /\ c \in DOMAIN customers
    /\ edit_customer' = [edit_customer EXCEPT ![s] =
          [id |-> c, loyalty_points |-> customers[c].loyalty_points,
           total_spend |-> customers[c].total_spend,
           order_count |-> customers[c].order_count]]
    /\ UNCHANGED <<config_table, products, customers, transactions,
                   transaction_items, clock, cart, edit_product, screen,
                   setup_step, pc, run, error, stock0>>

\* the form's "Save" with edit_customer set: customer_data takes its
\* loyalty_points, total_spend and order_count from edit_customer
SaveCustomer(s) ==
    /\ Press(s)
    /\ edit_customer[s].id # None
    /\ customers' = CustomerDB_update(customers, edit_customer[s])
    /\ edit_customer' = [edit_customer EXCEPT ![s] = NoEdit]
    /\ UNCHANGED <<config_table, products, transactions, transaction_items,
                   clock, cart, edit_product, screen, setup_step, pc, run,
                   error, stock0>>

\* "Del"
DeleteCustomer(s, c) ==
    /\ Press(s)
    /\ c \in DOMAIN customers
    /\ customers' = CustomerDB_delete(customers, c)
    /\ UNCHANGED <<config_table, products, transactions, transaction_items,
                   clock, cart, edit_customer, edit_product, screen, setup_step,
                   pc, run, error, stock0>>

----------------------------------------------------------------------------
(* products_screen *)

\* "Edit": st.session_state.edit_product = product
EditProduct(s, p) ==
    /\ Press(s)
    /\ p \in DOMAIN products
    /\ edit_product' = [edit_product EXCEPT ![s] =
          [id |-> p, price |-> products[p].price,
           inventory |-> products[p].inventory]]
    /\ UNCHANGED <<config_table, products, customers, transactions,
                   transaction_items, clock, cart, edit_customer, screen,
                   setup_step, pc, run, error, stock0>>

\* a form that accepts every name and price
ValidProduct_any(name, price) == TRUE

\* if not product_data['name'] or product_data['price'] <= 0: st.error(...)
ValidProduct(name, price) == name # "" /\ price > 0

\* product_data of the form: the "Stock" input is drawn only with inventory
\* tracking on; without it product_data has no 'inventory', and ProductDB.add
\* and ProductDB.update write product_data.get('inventory', 0)
ProductData(id, price, inventory) ==
    [id |-> id, price |-> price,
     inventory |-> IF config.enableInventory THEN inventory ELSE 0]

\* 'id': str(datetime.now().timestamp()) of a new product
NewProductId == ToString(clock)

\* the form's "Save" with edit_product set, the inputs holding `name`,
\* `price` and `inventory`
SaveProduct(s, name, price, inventory) ==
    /\ Press(s)
    /\ edit_product[s].id # None
    /\ IF ~ValidProduct(name, price)
       THEN /\ error' = [error EXCEPT ![s] = ValidationError]
            /\ UNCHANGED <<products, edit_product>>
       ELSE /\ products' = ProductDB_update(products,
                   ProductData(edit_product[s].id, price, inventory))
            /\ error' = [error EXCEPT ![s] = None]
            /\ edit_product' = [edit_product EXCEPT ![s] = NoEditProduct]
    /\ UNCHANGED <<config_table, customers, transactions, transaction_items,
                   clock, cart, edit_customer, screen, setup_step, pc, run,
                   stock0>>

\* the form's "Save" after "Add Product" (edit_product is None): the INSERT
\* of a taken id raises sqlite3.IntegrityError
CreateProduct(s, name, price, inventory) ==
    /\ Press(s)
    /\ edit_product[s].id = None
    /\ IF ~ValidProduct(name, price)
       THEN /\ error' = [error EXCEPT ![s] = ValidationError]
            /\ products' = products
       ELSE IF NewProductId \in DOMAIN products
            THEN /\ error' = [error EXCEPT ![s] = "IntegrityError"]
                 /\ products' = products
            ELSE /\ products' = ProductDB_add(products,
                        ProductData(NewProductId, price, inventory))
                 /\ error' = [error EXCEPT ![s] = None]
    /\ UNCHANGED <<config_table, customers, transactions, transaction_items,
                   clock, cart, edit_customer, edit_product, screen, setup_step,
                   pc, run, stock0>>

\* "Delete"
DeleteProduct(s, p) ==
    /\ Press(s)
    /\ p \in DOMAIN products
    /\ products' = ProductDB_delete(products, p)
    /\ UNCHANGED <<config_table, customers, transactions, transaction_items,
                   clock, cart, edit_customer, edit_product, screen, setup_step,
                   pc, run, error, stock0>>

----------------------------------------------------------------------------
(* settings_screen *)

\* "Save Features" with the three check boxes holding the given values
SaveFeatures(s, enableInventory, enableCustomers, enableLoyalty) ==
    /\ Press(s)
    /\ config_table' = ConfigDB_save(config_table,
          [config EXCEPT !.enableInventory = enableInventory,
                         !.enableCustomers = enableCustomers,
                         !.enableLoyalty = enableLoyalty])
    /\ UNCHANGED <<products, customers, transactions, transaction_items, clock,
                   cart, edit_customer, edit_product, screen, setup_step, pc,
                   run, error, stock0>>

\* "Clear All Transactions", drawn once "Show dangerous operations" is
\* ticked.  The two DELETEs run in the script run of the press when the
\* check box "Confirm delete all transactions" reads ticked in that run:
\* the box is drawn unticked by the first press, and a press that reaches
\* the server together with the tick of the box finds it ticked.
ClearAllTransactions(s) ==
    /\ Press(s)
    /\ \E confirm \in BOOLEAN :
          IF confirm
          THEN /\ transaction_items' = <<>>
               /\ transactions' = <<>>
          ELSE UNCHANGED <<transactions, transaction_items>>
    /\ UNCHANGED <<config_table, products, customers, clock, cart,
                   edit_customer, edit_product, screen, setup_step, pc, run,
                   error, stock0>>

\* "Save Settings" of the Business Info tab with the given inputs
SaveSettings(s, businessName, taxRate) ==
    /\ Press(s)
    /\ config_table' = ConfigDB_save(config_table,
          [config EXCEPT !.businessName = businessName, !.taxRate = taxRate])
    /\ UNCHANGED <<products, customers, transactions, transaction_items, clock,
                   cart, edit_customer, edit_product, screen, setup_step, pc,
                   run, error, stock0>>

----------------------------------------------------------------------------
(* main, welcome_screen, setup_wizard, header *)

\* the screen function main calls for session s: welcome_screen when
\* session_state.screen is 'welcome' or ConfigDB.get() is falsy, setup_wizard
\* when it is 'setup', else the header and the screen named
Rendered(s) ==
    IF screen[s] = "welcome" \/ ~HasConfig THEN "welcome"
    ELSE IF screen[s] = "setup" THEN "setup"
    ELSE screen[s]

\* the screens of the select box of header
HeaderScreens ==
    {"dashboard", "pos", "products", "customers", "analytics", "settings"}

SetupError == "Please enter a business name"

\* welcome_screen: "Get Started"
GetStarted(s) ==
    /\ Press(s)
    /\ Rendered(s) = "welcome"
    /\ screen' = [screen EXCEPT ![s] = "setup"]
    /\ UNCHANGED <<config_table, products, customers, transactions,
                   transaction_items, clock, cart, edit_customer, edit_product,
                   setup_step, pc, run, error, stock0>>

\* setup_wizard, step 1: "Select" of the template `key`
SelectTemplate(s, key) ==
    /\ Press(s)
    /\ Rendered(s) = "setup"
    /\ setup_step[s] = 1
    /\ config_table' = ConfigDB_save(config_table, SelectConfig(key))
    /\ setup_step' = [setup_step EXCEPT ![s] = 2]
    /\ UNCHANGED <<products, customers, transactions, transaction_items, clock,
                   cart, edit_customer, edit_product, screen, pc, run, error,
                   stock0>>

\* setup_wizard, step 2: "Back".  The wizard is drawn only when main has
\* read a config and no handler deletes the row, so the branch
\* "Configuration lost" of step 2 is never taken.
Back(s) ==
    /\ Press(s)
    /\ Rendered(s) = "setup"
    /\ setup_step[s] = 2
    /\ setup_step' = [setup_step EXCEPT ![s] = 1]
    /\ UNCHANGED <<config_table, products, customers, transactions,
                   transaction_items, clock, cart, edit_customer, edit_product,
                   screen, pc, run, error, stock0>>

\* setup_wizard, step 2: "Complete Setup" with the name typed and the three
\* check boxes holding the given values
CompleteSetup(s, businessName, enableInventory, enableCustomers, enableLoyalty) ==
    /\ Press(s)
    /\ Rendered(s) = "setup"
    /\ setup_step[s] = 2
    /\ IF businessName = ""
       THEN /\ error' = [error EXCEPT ![s] = SetupError]
            /\ UNCHANGED <<config_table, screen>>
       ELSE /\ config_table' = ConfigDB_save(config_table,
                  [config EXCEPT !.businessName = businessName,
                                 !.enableInventory = enableInventory,
                                 !.enableCustomers = enableCustomers,
                                 !.enableLoyalty = enableLoyalty])
            /\ screen' = [screen EXCEPT ![s] = "dashboard"]
            /\ error' = [error EXCEPT ![s] = None]
    /\ UNCHANGED <<products, customers, transactions, transaction_items, clock,
                   cart, edit_customer, edit_product, setup_step, pc, run,
                   stock0>>

\* header: another screen chosen in the select box
Navigate(s, selected) ==
    /\ Press(s)
    /\ Rendered(s) \notin {"welcome", "setup"}
    /\ selected \in HeaderScreens \ {screen[s]}
    /\ screen' = [screen EXCEPT ![s] = selected]
    /\ UNCHANGED <<config_table, products, customers, transactions,
                   transaction_items, clock, cart, edit_customer, edit_product,
                   setup_step, pc, run, error, stock0>>

----------------------------------------------------------------------------
(* The wall clock advances between any two steps, or does not *)

Tick ==
    /\ clock < MaxClock
    /\ clock' = clock + 1
    /\ UNCHANGED <<config_table, products, customers, transactions,
                   transaction_items, cart, edit_customer, edit_product, screen,
                   setup_step, pc, run, error, stock0>>

----------------------------------------------------------------------------

(* Specifications.  Spec: two sessions buying product A, with a customer   *)
(* another session may delete.  SpecLedger: the same with the customer     *)
(* form and carts of one unit.  SpecSolo: one session selling the whole    *)
(* catalog to guests, in a shop without customers.  SpecSerial: two        *)
(* sessions whose script runs follow each other without overlapping.       *)

CartButtons(S, P) ==
    \/ \E s \in S, p \in P : AddGrid(s, p)
    \/ \E s \in S, p \in P : AddList(s, p)
    \/ \E s \in S, i \in 1..Cardinality(ProductIds) : DecCart(s, i)
    \/ \E s \in S, i \in 1..Cardinality(ProductIds) : IncCart(s, i)
    \/ \E s \in S, i \in 1..Cardinality(ProductIds) : DelCart(s, i)
    \/ \E s \in S : ClearCart(s)

Complete(S) ==
    \/ \E s \in S : CompleteRead(s)
    \/ \E s \in S : CompleteStats(s)
    \/ \E s \in S : CompleteInsert(s)
    \/ \E s \in S : CompleteInventory(s)

Init == InitShop([ProductIds -> 1..MaxStock], CustomerIds)

Next ==
    \/ CartButtons(Sessions, {"A"})
    \/ Complete(Sessions)
    \/ \E s \in Sessions, c \in CustomerIds : DeleteCustomer(s, c)
    \/ Tick

Spec == Init /\ [][Next]_vars

NextLedger ==
    \/ \E s \in Sessions : cart[s] = <<>> /\ AddList(s, "A")
    \/ Complete(Sessions)
    \/ \E s \in Sessions, c \in CustomerIds : EditCustomer(s, c)
    \/ \E s \in Sessions : SaveCustomer(s)
    \/ \E s \in Sessions, c \in CustomerIds : DeleteCustomer(s, c)
    \/ Tick

SpecLedger == Init /\ [][NextLedger]_vars

InitSolo == InitShop([ProductIds -> 0..MaxStock], {})

NextSolo ==
    \/ CartButtons({"s1"}, ProductIds)
    \/ CompleteRead("s1")
    \/ CompleteInsert("s1")
    \/ CompleteInventory("s1")
    \/ Tick

SpecSolo == InitSolo /\ [][NextSolo]_vars

\* a run starts only when no other run is under way
NoRun == \A s \in Sessions : pc[s] = "idle"

NextSerial ==
    \/ NoRun /\ \E s \in Sessions : AddList(s, "A")
    \/ NoRun /\ \E s \in Sessions : ClearCart(s)
    \/ NoRun /\ \E s \in Sessions : CompleteRead(s)
    \/ \E s \in Sessions : CompleteStats(s)
    \/ \E s \in Sessions : CompleteInsert(s)
    \/ \E s \in Sessions : CompleteInventory(s)
    \/ Tick

SpecSerial == Init /\ [][NextSerial]_vars

\* the till of one session up to the orders of one clock reading: every cart
\* of the catalog, every tax rate, discount and tip
InitPricing ==
    InitShopWith({[DefaultConfig EXCEPT !.taxRate = r] : r \in TaxRates},
                 [ProductIds -> 1..MaxStock], {})

NextPricing ==
    \/ \E p \in ProductIds : AddGrid("s1", p)
    \/ \E i \in 1..Cardinality(ProductIds) : DecCart("s1", i)
    \/ \E discount_pct \in PricingPcts, tip \in PricingTips :
          CompleteReadWith("s1", Guest, discount_pct, tip)
    \/ CompleteInsert("s1")
    \/ CompleteInventory("s1")

SpecPricing == InitPricing /\ [][NextPricing]_vars

\* one session selling product A to the customer or to a guest, the loyalty
\* program switched on and off in the settings
InitLoyalty ==
    InitShopWith({[DefaultConfig EXCEPT !.loyaltyRate = r] : r \in LoyaltyRates},
                 [ProductIds -> {MaxStock}], CustomerIds)

NextLoyalty ==
    \/ AddList("s1", "A")
    \/ ClearCart("s1")
    \/ CompleteRead("s1")
    \/ CompleteStats("s1")
    \/ CompleteInsert("s1")
    \/ CompleteInventory("s1")
    \/ \E enableLoyalty \in BOOLEAN :
          SaveFeatures("s1", config.enableInventory, config.enableCustomers,
                       enableLoyalty)
    \/ Tick

SpecLoyalty == InitLoyalty /\ [][NextLoyalty]_vars

\* one session selling product A to guests while the catalog is edited and
\* the order tables are cleared from the settings
InitCatalog == InitShop([ProductIds -> {MaxStock}], {})

NextCatalog ==
    \/ AddGrid("s1", "A")
    \/ \E i \in 1..Cardinality(ProductIds) : DelCart("s1", i)
    \/ CompleteRead("s1")
    \/ CompleteInsert("s1")
    \/ CompleteInventory("s1")
    \/ EditProduct("s1", "A")
    \/ \E name \in FormNames, price \in EditPrices, inventory \in 0..MaxStock :
          SaveProduct("s1", name, price, inventory)
    \/ DeleteProduct("s1", "A")
    \/ ClearAllTransactions("s1")
    \/ Tick

SpecCatalog == InitCatalog /\ [][NextCatalog]_vars

\* two sessions selling the catalog to guests, one unit a line, their
\* checkouts interleaving
InitStock == InitShop([ProductIds -> 1..MaxStock], {})

NextStock ==
    \/ \E s \in Sessions, p \in ProductIds :
          CartIndex(cart[s], p) = 0 /\ AddList(s, p)
    \/ \E s \in Sessions : CompleteRead(s)
    \/ \E s \in Sessions : CompleteInsert(s)
    \/ \E s \in Sessions : CompleteInventory(s)
    \/ Tick

SpecStock == InitStock /\ [][NextStock]_vars

\* two sessions selling product A to guests, one unit an order, while the
\* inventory tracking is switched off and on in the settings
NextTracking ==
    \/ \E s \in Sessions : cart[s] = <<>> /\ AddList(s, "A")
    \/ \E s \in Sessions : CompleteRead(s)
    \/ \E s \in Sessions : CompleteInsert(s)
    \/ \E s \in Sessions : CompleteInventory(s)
    \/ \E s \in Sessions, enableInventory \in BOOLEAN :
          SaveFeatures(s, enableInventory, config.enableCustomers,
                       config.enableLoyalty)
    \/ Tick

SpecTracking == InitStock /\ [][NextTracking]_vars

\* two sessions on the products screen: the form in both modes, and Delete
InitProducts == InitShop([ProductIds -> {MaxStock}], {})

NextProducts ==
    \/ \E s \in Sessions : EditProduct(s, "A")
    \/ \E s \in Sessions, name \in FormNames, price \in FormPrices,
          inventory \in {MaxStock} :
          SaveProduct(s, name, price, inventory)
    \/ \E s \in Sessions, name \in FormNames, price \in FormPrices,
          inventory \in {MaxStock} :
          CreateProduct(s, name, price, inventory)
    \/ \E s \in Sessions, p \in {"A", NewProductId} : DeleteProduct(s, p)
    \/ Tick

SpecProducts == InitProducts /\ [][NextProducts]_vars

\* two sessions editing the catalog's products in the form while the
\* inventory tracking is switched off and on in the settings
NextForm ==
    \/ \E s \in Sessions, p \in ProductIds : EditProduct(s, p)
    \/ \E s \in Sessions, name \in FormNames, price \in FormPrices,
          inventory \in 1..MaxStock :
          SaveProduct(s, name, price, inventory)
    \/ \E s \in Sessions, enableInventory \in BOOLEAN :
          SaveFeatures(s, enableInventory, config.enableCustomers,
                       config.enableLoyalty)

SpecForm == InitProducts /\ [][NextForm]_vars

\* two sessions selling product A, one unit an order, to the customer or to
\* a guest, in a shop without inventory tracking, while the customer
\* database is switched off and on in the settings
InitGuest ==
    InitShopWith({[DefaultConfig EXCEPT !.enableInventory = FALSE]},
                 [ProductIds -> {MaxStock}], CustomerIds)

NextGuest ==
    \/ \E s \in Sessions : cart[s] = <<>> /\ AddList(s, "A")
    \/ \E s \in Sessions : CompleteRead(s)
    \/ \E s \in Sessions : CompleteStats(s)
    \/ \E s \in Sessions : CompleteInsert(s)
    \/ \E s \in Sessions, enableCustomers \in BOOLEAN :
          SaveFeatures(s, config.enableInventory, enableCustomers,
                       config.enableLoyalty)
    \/ Tick

SpecGuest == InitGuest /\ [][NextGuest]_vars

\* SpecSetup: two browser sessions opened on a database that is new, or that
\* holds a config already; the welcome screen, the wizard, the header and the
\* two save buttons of the settings.
InitSetup ==
    /\ config_table \in {<<>>, ConfigDB_save(<<>>, DefaultConfig)}
    /\ products = <<>>
    /\ stock0 = <<>>
    /\ customers = <<>>
    /\ transactions = <<>>
    /\ transaction_items = <<>>
    /\ clock = 0
    /\ cart = [s \in Sessions |-> <<>>]
    /\ edit_customer = [s \in Sessions |-> NoEdit]
    /\ edit_product = [s \in Sessions |-> NoEditProduct]
    /\ screen = [s \in Sessions |-> "welcome"]
    /\ setup_step = [s \in Sessions |-> 1]
    /\ pc = [s \in Sessions |-> "idle"]
    /\ run = [s \in Sessions |-> IdleRun]
    /\ error = [s \in Sessions |-> None]

NextSetup ==
    \/ \E s \in Sessions : GetStarted(s)
    \/ \E s \in Sessions, key \in BusinessTypes : SelectTemplate(s, key)
    \/ \E s \in Sessions : Back(s)
    \/ \E s \in Sessions, businessName \in BusinessNames, b \in BOOLEAN :
          CompleteSetup(s, businessName, b, TRUE, b)
    \/ \E s \in Sessions, selected \in HeaderScreens : Navigate(s, selected)
    \/ \E s \in Sessions, businessName \in BusinessNames, r \in TaxRates :
          Rendered(s) = "settings" /\ SaveSettings(s, businessName, r)
    \/ \E s \in Sessions, b \in BOOLEAN :
          Rendered(s) = "settings" /\ SaveFeatures(s, b, TRUE, b)

SpecSetup == InitSetup /\ [][NextSetup]_vars

----------------------------------------------------------------------------
(* Properties *)

Idle == \A s \in Sessions : pc[s] = "idle"

\* the units of product p in the lines of cart c
QtyInCart(c, p) ==
    SumSeq([i \in 1..Len(c) |-> IF c[i].id = p THEN c[i].cartQuantity ELSE 0])

\* the units of product p in the line items of all committed orders
QtySold(p) ==
    SumSeq([i \in 1..Len(transaction_items) |->
              IF transaction_items[i].product_id = p
              THEN transaction_items[i].quantity ELSE 0])

\* the committed orders that reference customer c
OrdersOf(c) == {t \in DOMAIN transactions : transactions[t].customer_id = c}

\* a line of the session's cart asks for more than the stock the run read
Overstock(s) ==
    \E i \in 1..Len(cart[s]) :
        /\ cart[s][i].id \in DOMAIN run[s].products
        /\ cart[s][i].cartQuantity > run[s].products[cart[s][i].id].inventory

\* C1: with inventory tracking enabled, the stored stock level of every
\* product is >= 0 in every reachable state.
C1_StockNeverNegative ==
    config.enableInventory =>
        \A p \in DOMAIN products : products[p].inventory >= 0

\* C2: when every checkout asks for one unit of a product, no more checkouts
\* succeed than the product had units in stock, and its stock never falls
\* below 0: two checkouts of the last unit never both succeed.
C2_LastUnitSoldOnce ==
    \A p \in DOMAIN products :
        (\A i \in 1..Len(transaction_items) :
            transaction_items[i].product_id = p /\ transaction_items[i].quantity = 1)
        => /\ Len(transaction_items) <= stock0[p]
           /\ products[p].inventory >= 0

\* C3: with inventory tracking enabled, while a checkout runs whose cart has
\* a line above the stock read at checkout time, no step changes the
\* products, the customers, the orders or the line items: the checkout is
\* rejected as a whole.
C3_OverstockRejected ==
    [][\A s \in Sessions :
          (pc[s] # "idle" /\ run[s].enableInventory /\ Overstock(s))
          => UNCHANGED <<products, customers, transactions, transaction_items>>]_vars

\* C4: the effects of a checkout are visible all together or not at all: in
\* every state, the stock every product has lost is the quantity its
\* committed line items name, and every customer's order count is the
\* number of committed orders that reference the customer.
C4_CheckoutAtomic ==
    /\ \A p \in DOMAIN products :
          stock0[p] - products[p].inventory = QtySold(p)
    /\ \A c \in DOMAIN customers :
          customers[c].order_count = Cardinality(OrdersOf(c))

\* C5: when the order insert of a checkout fails, the products and the
\* customers are left as the checkout found them when it started.
C5_FailedCheckoutRollsBack ==
    [][\A s \in Sessions :
          (pc[s] = "insert" /\ error'[s] = "IntegrityError")
          => /\ customers' = run[s].customers
             /\ products' = run[s].products]_vars

\* C6: in every reachable state a customer's orderCount and totalSpend are
\* those of the committed orders that reference the customer: no order is
\* counted that is not in the order table, none is missed.
C6_StatsMatchOrders ==
    \A c \in DOMAIN customers :
        /\ customers[c].order_count = Cardinality(OrdersOf(c))
        /\ customers[c].total_spend =
              SumSeq([t \in 1..(MaxClock + 1) |->
                        IF (t - 1) \in OrdersOf(c)
                        THEN transactions[t - 1].total ELSE 0])

\* C7: no step decreases a customer's loyaltyPoints, totalSpend or
\* orderCount, and saving the customer form leaves the three unchanged.
C7_AggregatesNeverDecrease ==
    [][\A c \in DOMAIN customers \cap DOMAIN customers' :
          /\ customers'[c].loyalty_points >= customers[c].loyalty_points
          /\ customers'[c].total_spend >= customers[c].total_spend
          /\ customers'[c].order_count >= customers[c].order_count
          /\ (\E s \in Sessions : edit_customer[s].id # None
                                  /\ edit_customer'[s].id = None)
             => customers'[c] = customers[c]]_vars

\* C8: every checkout obtains an order id no order has, and commits: no
\* checkout ever ends on the order insert refusing its id.
C8_OrderIdsUnique ==
    \A s \in Sessions : error[s] # "IntegrityError"

\* C9: an order committed with a customerId references a customer that
\* exists at the moment of the commit.
C9_OrderCustomerExists ==
    [][\A t \in DOMAIN transactions' \ DOMAIN transactions :
          transactions'[t].customer_id # None
          => transactions'[t].customer_id \in DOMAIN customers]_vars

\* C10: with inventory tracking enabled, a checkout that commits its order
\* goes on to the stock updates, and when it ends every product's stock is
\* the stock the checkout found minus the quantity of the product's line in
\* the cart: unchanged for a product that is not in the cart.
C10_StockDecrement ==
    [][\A s \in Sessions :
          /\ (pc[s] = "insert" /\ transactions' # transactions
                /\ config.enableInventory) => pc'[s] = "inventory"
          /\ (pc[s] = "inventory" /\ pc'[s] = "idle")
             => /\ DOMAIN products' = DOMAIN run[s].products
                /\ \A p \in DOMAIN products' :
                      products'[p].inventory =
                         run[s].products[p].inventory - QtyInCart(cart[s], p)]_vars

\* C10 witness: product A had 2 units, an order of A x2 is committed and the
\* checkout has ended: A has 0 units and B what it started with.
C10_Witness ==
    /\ Idle
    /\ stock0["A"] = 2
    /\ Len(transaction_items) = 1
    /\ transaction_items[1].product_id = "A"
    /\ transaction_items[1].quantity = 2
    /\ products["A"].inventory = 0
    /\ products["B"].inventory = stock0["B"]

\* one hundredth of a currency unit, and x >= 0 rounded half up to hundredths
Cent == Scale \div 100
round2(x) == ((x + Cent \div 2) \div Cent) * Cent

\* the sum of price x quantity over the lines of cart c
LineSum(c) == SumSeq([i \in 1..Len(c) |-> c[i].price * c[i].cartQuantity])

\* session s commits its order in this step
Commits(s) ==
    /\ pc[s] = "insert" /\ pc'[s] # "insert"
    /\ DOMAIN transactions' # DOMAIN transactions

\* C11: for every cart, discount percentage, tax rate and tip, the totals of
\* a checkout are subtotal = the sum of price snapshot x quantity over the
\* lines, discount = subtotal x pct / 100, tax = (subtotal - discount) x
\* rate / 100 and total = (subtotal - discount) + tax + tip, and these are
\* the amounts of the committed order.
C11_Totals ==
    [][\A s \in Sessions :
          /\ (pc[s] = "idle" /\ pc'[s] # "idle")
             => LET r == run'[s]
                IN  /\ r.subtotal = LineSum(cart[s])
                    /\ r.discount * 100 = r.subtotal * r.discount_pct
                    /\ r.tax * 100 = (r.subtotal - r.discount) * config.taxRate
                    /\ r.total = (r.subtotal - r.discount) + r.tax + r.tip
          /\ Commits(s)
             => \A t \in DOMAIN transactions' \ DOMAIN transactions :
                   /\ transactions'[t].subtotal = run[s].subtotal
                   /\ transactions'[t].discount = run[s].discount
                   /\ transactions'[t].tax = run[s].tax
                   /\ transactions'[t].tip = run[s].tip
                   /\ transactions'[t].total = run[s].total]_vars

\* C11 witness: the order of A (10.00) x 2 with 10% discount, 8% tax and no
\* tip is committed with 20.00, 2.00, 1.44 and 19.44.
C11_Witness ==
    /\ config.taxRate = 8
    /\ \E t \in DOMAIN transactions :
          /\ transactions[t].subtotal = 20 * Scale
          /\ transactions[t].discount = 2 * Scale
          /\ transactions[t].tax = 144 * Cent
          /\ transactions[t].tip = 0
          /\ transactions[t].total = 1944 * Cent
    /\ \E i \in 1..Len(transaction_items) :
          /\ transaction_items[i].product_id = "A"
          /\ transaction_items[i].price = 10 * Scale
          /\ transaction_items[i].quantity = 2

\* C12: every committed order stores subtotal, discount, tax, tip and total
\* rounded half up to 2 decimal places, and the stored total is the rounded
\* subtotal - discount + tax + tip of the four stored components.
C12_StoredRounded ==
    \A t \in DOMAIN transactions :
        LET o == transactions[t]
        IN  /\ o.subtotal = round2(o.subtotal)
            /\ o.discount = round2(o.discount)
            /\ o.tax = round2(o.tax)
            /\ o.tip = round2(o.tip)
            /\ o.total = round2(o.total)
            /\ o.total = round2(o.subtotal - o.discount + o.tax + o.tip)

\* session s ends its checkout in this step with the order committed
Succeeds(s) ==
    /\ pc[s] \in {"insert", "inventory"}
    /\ pc'[s] = "idle"
    /\ error'[s] # "IntegrityError"

\* C13: a successful checkout for a customer increases the customer's
\* loyalty_points by floor(total x loyaltyRate) when the loyalty program is
\* enabled and by 0 when it is disabled, and in both cases adds the total to
\* total_spend and 1 to order_count.
C13_LoyaltyPoints ==
    [][\A s \in Sessions :
          (Succeeds(s) /\ run[s].customer_id # None)
          => LET c == run[s].customer_id
                 before == run[s].customers[c]
                 after == customers'[c]
                 points == after.loyalty_points - before.loyalty_points
                 earned == run[s].total * config.loyaltyRate
             IN  /\ c \in DOMAIN customers'
                 /\ config.enableLoyalty
                    => points * Scale <= earned /\ earned < (points + 1) * Scale
                 /\ ~config.enableLoyalty => points = 0
                 /\ after.total_spend = before.total_spend + run[s].total
                 /\ after.order_count = before.order_count + 1]_vars

\* C13 witness: with the rate 1 the customer's first order, of 19.44, is
\* committed and the customer has 19 points, 19.44 spent and one order.
C13_Witness ==
    /\ Idle
    /\ config.enableLoyalty /\ config.loyaltyRate = 1
    /\ \E t \in DOMAIN transactions :
          transactions[t].customer_id = "c1" /\ transactions[t].total = 1944 * Cent
    /\ customers["c1"] =
          [loyalty_points |-> 19, total_spend |-> 1944 * Cent, order_count |-> 1]

\* a customer's order committed with the loyalty program disabled: the order
\* is counted and no point is earned
C13_DisabledCase ==
    /\ Idle
    /\ ~config.enableLoyalty
    /\ customers["c1"].order_count = 1
    /\ customers["c1"].total_spend > 0
    /\ customers["c1"].loyalty_points = 0

\* C20: a checkout starts only from a cart with at least one line, every
\* committed order has at least one line item, and while every cart is
\* empty no order is created and no stock and no customer statistic changes.
C20_CheckoutNeedsCart ==
    [][/\ \A s \in Sessions :
             (pc[s] = "idle" /\ pc'[s] # "idle") => Len(cart[s]) >= 1
       /\ DOMAIN transactions' # DOMAIN transactions
             => Len(transaction_items') > Len(transaction_items)
       /\ (\A s \in Sessions : cart[s] = <<>>)
             => UNCHANGED <<transactions, transaction_items, products,
                            customers>>]_vars

\* C20 witness: the cart is empty again after the customer's order, no
\* checkout runs, and the stock and the statistics are those of that order.
C20_Witness ==
    /\ Idle
    /\ \A s \in Sessions : cart[s] = <<>>
    /\ Cardinality(DOMAIN transactions) = 1
    /\ Len(transaction_items) = 1
    /\ products["A"].inventory = stock0["A"] - QtySold("A")
    /\ customers["c1"].order_count = 1

\* the line items the step appends to table transaction_items
NewItems ==
    SubSeq(transaction_items', Len(transaction_items) + 1, Len(transaction_items'))

\* C14: the price of a cart line is the product's price when the line was
\* added and no step changes it; a step that changes a product's price in
\* the catalog changes no cart, no order and no line item; and an order is
\* committed with the prices of its cart lines, whatever the catalog says.
C14_PriceSnapshot ==
    [][/\ \A s \in Sessions :
          /\ \A i \in 1..Len(cart[s]), j \in 1..Len(cart'[s]) :
                cart[s][i].id = cart'[s][j].id
                => cart'[s][j].price = cart[s][i].price
          /\ \A j \in 1..Len(cart'[s]) :
                (\A i \in 1..Len(cart[s]) : cart[s][i].id # cart'[s][j].id)
                => /\ cart'[s][j].id \in DOMAIN products
                   /\ cart'[s][j].price = products[cart'[s][j].id].price
          /\ Commits(s)
             => /\ Len(NewItems) = Len(cart[s])
                /\ \A i \in 1..Len(cart[s]) :
                      /\ NewItems[i].product_id = cart[s][i].id
                      /\ NewItems[i].price = cart[s][i].price
                /\ \A t \in DOMAIN transactions' \ DOMAIN transactions :
                      transactions'[t].subtotal = LineSum(cart[s])
       /\ (\E p \in DOMAIN products \cap DOMAIN products' :
              products'[p].price # products[p].price)
          => UNCHANGED <<cart, transactions, transaction_items>>]_vars

\* C14 witness: product A, sold at 10.00 and again in the cart at 10.00, now
\* costs 12.00 in the catalog.
C14_Witness ==
    /\ "A" \in DOMAIN products
    /\ products["A"].price = 12 * Scale
    /\ Len(cart["s1"]) = 1
    /\ cart["s1"][1].id = "A"
    /\ cart["s1"][1].price = 10 * Scale
    /\ \E t \in DOMAIN transactions : transactions[t].subtotal = 10 * Scale
    /\ \E i \in 1..Len(transaction_items) :
          /\ transaction_items[i].product_id = "A"
          /\ transaction_items[i].price = 10 * Scale

\* C19: a committed order is write-once: no step changes or removes a row of
\* table transactions or a row of table transaction_items.
C19_OrderWriteOnce ==
    [][/\ \A t \in DOMAIN transactions :
             t \in DOMAIN transactions' /\ transactions'[t] = transactions[t]
       /\ Len(transaction_items') >= Len(transaction_items)
       /\ SubSeq(transaction_items', 1, Len(transaction_items))
             = transaction_items]_vars

\* cart c has a line of product p
HasLine(c, p) == \E i \in 1..Len(c) : c[i].id = p

\* C15: after every step every cart has at most one line per product id,
\* and a step that adds a unit of a product that has a line leaves the
\* number of lines as it is and raises that product's quantity by 1.
C15_OneLinePerProduct ==
    [][\A s \in Sessions :
          /\ \A i, j \in 1..Len(cart'[s]) :
                cart'[s][i].id = cart'[s][j].id => i = j
          /\ \A p \in ProductIds :
                (/\ HasLine(cart[s], p)
                 /\ QtyInCart(cart'[s], p) > QtyInCart(cart[s], p))
                => /\ Len(cart'[s]) = Len(cart[s])
                   /\ QtyInCart(cart'[s], p) = QtyInCart(cart[s], p) + 1]_vars

\* C15 witness: a cart of two lines, of different products, one of them
\* added more than once.
C15_Witness ==
    /\ Len(cart["s1"]) = 2
    /\ cart["s1"][1].id # cart["s1"][2].id
    /\ \E i \in 1..2 : cart["s1"][i].cartQuantity >= 2

\* C16: every line of every cart has a quantity of at least 1.
C16_QuantityPositive ==
    \A s \in Sessions : \A i \in 1..Len(cart[s]) : cart[s][i].cartQuantity >= 1

\* C16 witness: after an order, a cart whose lines all have quantity 1, the
\* least a line can have.
C16_Witness ==
    /\ Idle
    /\ transactions # <<>>
    /\ Len(cart["s1"]) = 2
    /\ \A i \in 1..2 : cart["s1"][i].cartQuantity = 1

\* C17: with inventory tracking enabled, no step raises the quantity of a
\* cart line above the stock the product has when the button is pressed:
\* the add is refused and the cart stays as it is.
C17_AddRespectsStock ==
    [][\A s \in Sessions : \A i \in 1..Len(cart[s]) :
          (/\ config.enableInventory
           /\ Len(cart'[s]) = Len(cart[s])
           /\ cart'[s][i].id = cart[s][i].id
           /\ cart'[s][i].cartQuantity > cart[s][i].cartQuantity)
          => /\ cart[s][i].id \in DOMAIN products
             /\ cart'[s][i].cartQuantity <= products[cart[s][i].id].inventory]_vars

\* the lines of cart c that are not of product p, in their order
OtherLines(c, p) == SelectSeq(c, LAMBDA line : line.id # p)

\* C18: the minus button of a line lowers the line's quantity by exactly 1,
\* removes the line when the quantity reaches 0, and leaves every other
\* line and every other cart as they are.
C18_Decrement ==
    [][\A s \in Sessions : \A i \in 1..Len(cart[s]) :
          DecCart(s, i)
          => LET line == cart[s][i]
             IN  /\ OtherLines(cart'[s], line.id) = OtherLines(cart[s], line.id)
                 /\ QtyInCart(cart'[s], line.id) = line.cartQuantity - 1
                 /\ IF line.cartQuantity = 1
                    THEN /\ Len(cart'[s]) = Len(cart[s]) - 1
                         /\ ~HasLine(cart'[s], line.id)
                    ELSE /\ Len(cart'[s]) = Len(cart[s])
                         /\ cart'[s][i] =
                               [line EXCEPT !.cartQuantity = line.cartQuantity - 1]
                 /\ \A o \in Sessions \ {s} : cart'[o] = cart[o]]_vars

\* C18 witness: a cart whose first line the minus button removes and whose
\* second line it lowers to 1.
C18_Witness ==
    /\ Idle
    /\ Len(cart["s1"]) = 2
    /\ cart["s1"][1].cartQuantity = 1
    /\ cart["s1"][2].cartQuantity = 2

\* C21: saving the form of a new product with an empty name or a price <= 0
\* ends with the validation error and leaves table products as it is.
C21_CreateValidated ==
    [][\A s \in Sessions, name \in FormNames, price \in FormPrices :
          (/\ CreateProduct(s, name, price, MaxStock)
           /\ (name = "" \/ price <= 0))
          => /\ products' = products
             /\ error'[s] = ValidationError]_vars

\* C21 witness: the form of a new product has been refused and the catalog
\* is the one the shop started with.
C21_Witness ==
    /\ edit_product["s1"].id = None
    /\ error["s1"] = ValidationError
    /\ DOMAIN products = ProductIds
    /\ \A p \in ProductIds : products[p].price = PriceOf(p)

\* C22: saving the edit form of a product whose row is gone ends with
\* NotFound, not with success, and leaves table products as it is.
C22_UpdateNotFound ==
    [][\A s \in Sessions, name \in FormNames, price \in FormPrices :
          (/\ SaveProduct(s, name, price, MaxStock)
           /\ ValidProduct(name, price)
           /\ edit_product[s].id \notin DOMAIN products)
          => /\ error'[s] = "NotFound"
             /\ products' = products]_vars

\* the units of product p in the cart lines whose stock update the running
\* checkouts have still to make
Pending(p) ==
    LET todo(s) ==
          IF pc[s] = "inventory"
          THEN SumSeq([i \in 1..Len(cart[s]) |->
                         IF i >= run[s].i /\ cart[s][i].id = p
                         THEN cart[s][i].cartQuantity ELSE 0])
          ELSE 0
    IN  todo("s1") + todo("s2")

\* C23: concurrent update_inventory calls on a product lose no update: in
\* every state of interleaved checkouts the product's stock is its initial
\* stock plus the quantity changes of all the calls made so far.
C23_NoLostStockUpdate ==
    \A p \in DOMAIN products :
        products[p].inventory = stock0[p] - (QtySold(p) - Pending(p))

\* C23 witness: both sessions are in their stock updates, each with a unit
\* of product A still to take off.
C23_Witness ==
    /\ \A s \in Sessions : pc[s] = "inventory" /\ HasLine(cart[s], "A")
    /\ Pending("A") = 2
    /\ QtySold("A") = 2

\* C26: whenever no checkout is in progress, with no stock edited in the
\* product form, for every product with tracked inventory the initial stock
\* minus the current stock is the quantity of the product over the line
\* items of all committed orders.
C26_StockConservedWhenIdle ==
    (Idle /\ config.enableInventory)
    => \A p \in DOMAIN products :
          stock0[p] - products[p].inventory = QtySold(p)

\* the units of product p that its committed line items name and the stock
\* has not lost, the updates still to come counted as made
Untracked(p) == QtySold(p) - Pending(p) - (stock0[p] - products[p].inventory)

\* the units of product p in the order this step commits for a run that
\* read the inventory tracking as disabled
UntrackedSale(p) ==
    LET sale(s) == IF Commits(s) /\ ~run[s].enableInventory
                   THEN QtyInCart(cart[s], p) ELSE 0
    IN  sale("s1") + sale("s2")

\* C26 (amended): with no stock edited in the product form, a product's
\* initial stock minus its current stock is the quantity of the product
\* over the line items of the orders committed by checkouts that ran with
\* inventory tracking enabled: the quantity over all line items exceeds it
\* by the units sold while tracking was disabled, whenever no checkout is
\* in progress and at every step in between.
C26_StockBalance ==
    [][\A p \in DOMAIN products :
          Untracked(p)' = Untracked(p) + UntrackedSale(p)]_vars

\* C26 witness: two orders with a unit of A each are committed, one of them
\* with tracking disabled; no checkout runs, tracking is enabled and A has
\* one unit less than it started with.
C26_Witness ==
    /\ Idle
    /\ config.enableInventory
    /\ Cardinality(DOMAIN transactions) = 2
    /\ QtySold("A") = 2
    /\ products["A"].inventory = stock0["A"] - 1

\* session s ends its checkout in this step on the refused order insert
Fails(s) == pc[s] = "insert" /\ error'[s] = "IntegrityError"

\* C24: the step that ends a successful checkout leaves the session's cart
\* empty; the step that ends a failed checkout, and every step of a running
\* checkout before its end, leaves the cart as it was.
C24_CartAfterCheckout ==
    [][\A s \in Sessions :
          /\ Succeeds(s) => cart'[s] = <<>>
          /\ Fails(s) => cart'[s] = cart[s] /\ cart'[s] # <<>>
          /\ (pc[s] # "idle" /\ ~Succeeds(s)) => cart'[s] = cart[s]]_vars

\* C24 witness: after an order that emptied the cart, the next checkout has
\* failed on its order id and its cart is still there.
C24_Witness ==
    /\ Idle
    /\ transactions # <<>>
    /\ error["s1"] = "IntegrityError"
    /\ cart["s1"] # <<>>

\* C25: the table config never holds more than one row; every save of the
\* wizard and of the settings leaves exactly the row with id 1, and
\* ConfigDB.get then returns the data that was saved.
C25_SingleConfig ==
    [][/\ Cardinality(DOMAIN config_table) <= 1
       /\ Cardinality(DOMAIN config_table') <= 1
       /\ config_table' # config_table => DOMAIN config_table' = {1}
       /\ \A s \in Sessions :
             /\ \A key \in BusinessTypes :
                   SelectTemplate(s, key) =>
                       HasConfig' /\ config' = SelectConfig(key)
             /\ \A b \in BOOLEAN :
                   CompleteSetup(s, "Shop", b, TRUE, b) =>
                       /\ HasConfig'
                       /\ config'.businessName = "Shop"
                       /\ config'.enableInventory = b
                       /\ config'.businessType = config.businessType
             /\ \A businessName \in BusinessNames, r \in TaxRates :
                   (Rendered(s) = "settings" /\ SaveSettings(s, businessName, r)) =>
                       /\ HasConfig'
                       /\ config'.businessName = businessName
                       /\ config'.taxRate = r
             /\ \A b \in BOOLEAN :
                   (Rendered(s) = "settings" /\ SaveFeatures(s, b, TRUE, b)) =>
                       HasConfig' /\ config'.enableLoyalty = b]_vars

\* C25 witness: the one row holds what the settings saved last, over the
\* config the wizard had saved for another template.
C25_Witness ==
    /\ DOMAIN config_table = {1}
    /\ config.businessType = "retail"
    /\ config.businessName = "Shop"
    /\ config.taxRate = 0
    /\ ~config.enableLoyalty

\* C30: in a database without a config, "Get Started" on the welcome screen
\* makes the next render the setup wizard, and no render without a config
\* is of a screen other than welcome and setup.
C30_GetStartedOpensWizard ==
    [][\A s \in Sessions :
          /\ (~HasConfig /\ GetStarted(s)) => Rendered(s)' = "setup"
          /\ ~HasConfig => Rendered(s) \in {"welcome", "setup"}]_vars

\* without a config every render is the welcome screen
C30_WelcomeOnly ==
    \A s \in Sessions : ~HasConfig => Rendered(s) = "welcome"

\* C27: a Save of the product edit form made while inventory tracking is
\* disabled leaves the stored stock of every product as it was.
C27_EditKeepsStock ==
    [][\A s \in Sessions, name \in FormNames, price \in FormPrices,
          inventory \in 1..MaxStock :
          (~config.enableInventory /\ SaveProduct(s, name, price, inventory)) =>
              \A p \in DOMAIN products :
                  products'[p].inventory = products[p].inventory]_vars

\* C28: the step that ends the order insert of a checkout that read inventory
\* tracking as disabled commits the order (unless its id is taken), ends the
\* run and leaves the table products, every stock with it, unchanged.
C28_UntrackedCheckout ==
    [][\A s \in Sessions :
          (pc[s] = "insert" /\ pc'[s] # "insert" /\ ~run[s].enableInventory) =>
              /\ products' = products
              /\ pc'[s] = "idle"
              /\ Commits(s) \/ Fails(s)]_vars

\* C28 witness: two orders sold one unit each with tracking disabled, and the
\* stock is the initial one.
C28_Witness ==
    /\ Idle
    /\ ~config.enableInventory
    /\ QtySold("A") = 2
    /\ products["A"].inventory = stock0["A"]

\* the step is one of session s's running checkout
RunStep(s) == pc[s] # "idle" /\ (pc'[s] # pc[s] \/ run'[s] # run[s])

\* C29: a Complete pressed with Guest selected, or with the customer database
\* disabled, starts a run without a customer id; no step of such a run
\* changes the table customers, and the order it commits has no customer id.
C29_GuestCheckout ==
    [][\A s \in Sessions :
          /\ \A selected_customer \in {Guest} \cup CustomerIds,
                discount_pct \in DiscountPcts, tip \in Tips :
                (/\ CompleteReadWith(s, selected_customer, discount_pct, tip)
                 /\ selected_customer = Guest \/ ~config.enableCustomers) =>
                    /\ run'[s].customer_id = None
                    /\ pc'[s] = "insert"
                    /\ customers' = customers
          /\ (RunStep(s) /\ run[s].customer_id = None) =>
                /\ customers' = customers
                /\ Commits(s) =>
                      transactions'[NewTransactionId].customer_id = None]_vars

\* C29 witness: with the customer database disabled an order without a
\* customer id was committed after an order of the customer, whose
\* statistics still count one order.
C29_Witness ==
    /\ Idle
    /\ ~config.enableCustomers
    /\ customers["c1"].order_count = 1
    /\ Cardinality(DOMAIN transactions) = 2
    /\ \E id \in DOMAIN transactions : transactions[id].customer_id = None

====
